---- MODULE Spec2Model ----
(***************************************************************************)
(* Model of src/main.py: the newsletter run (fetch, recency filter,        *)
(* dedup, truncation, render, archive, email and Telegram delivery) and    *)
(* the history helpers load_history / save_history.                        *)
(***************************************************************************)
EXTENDS Integers, Sequences, FiniteSets, TLC

\* ------------------------------------------------------------------ bounds
\* Total number of entries the configured feeds return.
MaxEntries == 2
\* Largest configured MAX_ITEMS.
MaxCap == 2
\* Largest number of links handed to save_history, and largest limit.
MaxHist == 3
MaxLimit == 2

\* config.get("feeds", []): the configured feed urls, in order.
Feeds == <<"u1", "u2">>
NumFeeds == Len(Feeds)

\* ------------------------------------------------------------ value domains
\* A falsy link: the entry has no "link" key, or it is the empty string.
NoLink == ""
Links == {"a", "b"}
LinkValues == Links \cup {NoLink}

\* datetime.utcnow(), in hours.
Now == 3
NoPub == [kind |-> "absent", t |-> 0]
BadPub == [kind |-> "malformed", t |-> 0]
\* Hours at which an entry was published: two hours ago, and just now.
PubHours == {1, 3}
PubTimes == {[kind |-> "time", t |-> h] : h \in PubHours}
PubValues == {NoPub, BadPub} \cup PubTimes

LookbackValues == {1, 2}
CapValues == (-1) .. MaxCap

Entries == [link : LinkValues, pub : PubValues]

\* What fetch_items(url) does for one url: it raises, or returns the n
\* entries of feed.entries.
FeedResults(n) ==
    {[raises |-> FALSE, entries |-> es] : es \in [1..n -> Entries]} \cup
    (IF n = 0 THEN {[raises |-> TRUE, entries |-> <<>>]} ELSE {})

\* The contents of the two feeds, MaxEntries entries in all at most.
Worlds ==
    UNION {{<<r1, r2>> : r1 \in FeedResults(n[1]), r2 \in FeedResults(n[2])} :
           n \in {m \in (0..MaxEntries) \X (0..MaxEntries) :
                     m[1] + m[2] <= MaxEntries}}

Min(a, b) == IF a < b THEN a ELSE b
Max(a, b) == IF a > b THEN a ELSE b
Range(s) == {s[i] : i \in 1..Len(s)}

VARIABLES
    feeds,        \* what each configured feed url returns
    LOOKBACK,     \* int(os.getenv("LOOKBACK_HOURS"))
    MAX_ITEMS,    \* int(os.getenv("MAX_ITEMS"))
    pc,           \* position of the run in the main block
    run,          \* "first" or "second": which of two consecutive runs this is
    fi,           \* index of the next feed url of the fetch loop
    items,        \* list of collected entries, each a reference <<feed, index>>
    warned,       \* feeds for which "[WARN] url: e" was printed
    seen,         \* set of links
    uniq,         \* list of entries
    htmlFile,     \* contents of newsletter.html
    emailLog,     \* "none"; "skipped" when the email block's condition is false;
                  \* "OK" for [OK] Email envoye.; "ERR" for [ERR] Envoi email
    tgResponse,   \* what the Telegram API answered in this run, "none" if not called
    tgLog,        \* "none"; "skipped" when the Telegram block's condition is false;
                  \* "OK" for [OK] Telegram envoye.; "ERR" for [ERR] Telegram
    historyFile,  \* history.json: [exists, valid, data]
    seen_links,   \* argument of save_history, in insertion order
    limit,        \* argument of save_history
    loaded        \* last result of load_history

vars == <<feeds, LOOKBACK, MAX_ITEMS, pc, run, fi, items,
          warned, seen, uniq, htmlFile, emailLog, tgResponse, tgLog,
          historyFile, seen_links, limit, loaded>>

configVars == <<feeds, LOOKBACK, MAX_ITEMS>>
historyVars == <<historyFile, seen_links, limit, loaded>>

\* ------------------------------------------------------------ pure helpers
Entry(ref) == feeds[ref[1]].entries[ref[2]]
\* it.get("link")
Link(ref) == Entry(ref).link

\* Python's clamping of a slice index n for a list of length len.
PyIndex(n, len) == IF n < 0 THEN Max(len + n, 0) ELSE Min(n, len)
\* Variant: the slice keeps one item too many.
SliceTo_OffByOne(s, n) == SubSeq(s, 1, PyIndex(n + 1, Len(s)))
\* Variant: the slice keeps the last n items instead of the first n.
SliceTo_Tail(s, n) == SubSeq(s, PyIndex(0 - n, Len(s)) + 1, Len(s))
\* s[:n]
SliceTo(s, n) == SubSeq(s, 1, PyIndex(n, Len(s)))
\* s[n:]
SliceFrom(s, n) == SubSeq(s, PyIndex(n, Len(s)) + 1, Len(s))

\* Variant: an entry without a timestamp is rejected.
within_lookback_FailClosed(published_parsed, lookback_hours) ==
    IF published_parsed = NoPub THEN "False"
    ELSE IF published_parsed = BadPub THEN "raise"
    ELSE IF published_parsed.t >= Now - lookback_hours THEN "True" ELSE "False"

\* within_lookback: "raise" stands for the exception datetime(*...) throws.
within_lookback(published_parsed, lookback_hours) ==
    IF published_parsed = NoPub THEN "True"
    ELSE IF published_parsed = BadPub THEN "raise"
    ELSE IF published_parsed.t >= Now - lookback_hours THEN "True" ELSE "False"

\* The body of the try block for feed f, from entry i on, with the entries
\* appended so far in acc.
RECURSIVE Collect(_, _, _)
Collect(f, i, acc) ==
    IF feeds[f].raises THEN [kept |-> acc, raised |-> TRUE]
    ELSE IF i > Len(feeds[f].entries) THEN [kept |-> acc, raised |-> FALSE]
    ELSE LET w == within_lookback(feeds[f].entries[i].pub, LOOKBACK) IN
         IF w = "raise" THEN [kept |-> acc, raised |-> TRUE]
         ELSE IF w = "True" THEN Collect(f, i + 1, Append(acc, <<f, i>>))
         ELSE Collect(f, i + 1, acc)

\* The dedup loop over its[i..], from the state (s, u) of (seen, uniq).
\* Variant: the test "link not in seen" is missing.
DedupKeeps_NoSeenTest(link, s) == link # NoLink
\* if link and link not in seen
DedupKeeps(link, s) == link # NoLink /\ link \notin s
RECURSIVE Dedup(_, _, _, _)
Dedup(its, i, s, u) ==
    IF i > Len(its) THEN [seen |-> s, uniq |-> u]
    ELSE IF DedupKeeps(Link(its[i]), s)
         THEN Dedup(its, i + 1, s \cup {Link(its[i])}, Append(u, its[i]))
         ELSE Dedup(its, i + 1, s, u)

\* build_html: the item blocks (href of each item, "#" when the key is
\* absent), the count and the lookback substituted into the template.
Href(ref) == IF Link(ref) = NoLink THEN "#" ELSE Link(ref)
build_html(its, lookback) ==
    [count |-> Len(its),
     hrefs |-> [k \in 1..Len(its) |-> Href(its[k])],
     lookback |-> lookback]

NoFile == [count |-> 0, hrefs |-> <<>>, lookback |-> 0]

\* send_email, as the main block sees it: it returns or it raises.
SmtpOutcomes == {"delivered", "raises"}
\* try: send_email(...); print("[OK] Email envoye.")  except Exception: print("[ERR] ...")
EmailReport(outcome) == IF outcome = "raises" THEN "ERR" ELSE "OK"
\* Variant: no except clause around send_email, its exception ends the run.
AfterEmail_Uncaught(outcome) == IF outcome = "raises" THEN "aborted" ELSE "telegram"
\* Where control goes after the email block: the except clause catches the
\* exception, so the Telegram block always follows.
AfterEmail(outcome) == "telegram"

\* What the Telegram bot API does with the POST: HTTP 200 and {"ok": true},
\* HTTP 200 and {"ok": false}, or no answer at all (requests raises).
TelegramResponses == {"ok_true", "ok_false", "transport_error"}
\* telegram_send: requests.post(...) and nothing else; the response is dropped.
telegram_send(response) == IF response = "transport_error" THEN "raise" ELSE "return"
\* try: telegram_send(...); print("[OK] Telegram envoye.")  except Exception: print("[ERR] ...")
TelegramReport(response) == IF telegram_send(response) = "raise" THEN "ERR" ELSE "OK"

\* list(seen_links) of a set: the elements in an order of the interpreter's
\* choosing (string hashing is randomised), so any order.
Orders(S) == {o \in [1..Cardinality(S) -> S] : Range(o) = S}
\* data = list(seen_links)[-limit:]
save_history(order, lim) == SliceFrom(order, 0 - lim)
\* load_history: set(json.load(f)), set() when the file is absent or unreadable.
load_history(file) == IF file.exists /\ file.valid THEN Range(file.data) ELSE {}

NoHistory == [exists |-> FALSE, valid |-> TRUE, data |-> <<>>]
CorruptHistory == [exists |-> TRUE, valid |-> FALSE, data |-> <<>>]

\* ------------------------------------------------------------------- Init
Init ==
    /\ feeds \in Worlds
    /\ LOOKBACK \in LookbackValues
    /\ MAX_ITEMS \in CapValues
    /\ pc = "start"
    /\ run = "first"
    /\ fi = 1
    /\ items = <<>>
    /\ warned = {}
    /\ seen = {}
    /\ uniq = <<>>
    /\ htmlFile = NoFile
    /\ emailLog = "none"
    /\ tgResponse = "none"
    /\ tgLog = "none"
    /\ historyFile = NoHistory
    /\ seen_links = <<>>
    /\ limit = 0
    /\ loaded = {}

\* ---------------------------------------------------------------- actions
\* load_yaml("feeds.yaml") and load_template(...): either raises and the run
\* ends there, before any output.
LoadConfig ==
    /\ pc = "start"
    /\ \E ok \in BOOLEAN : pc' = IF ok THEN "fetch" ELSE "aborted"
    /\ UNCHANGED <<configVars, historyVars, run, fi, items, warned, seen, uniq,
                   htmlFile, emailLog, tgResponse, tgLog>>

\* One iteration of "for url in config.get('feeds', [])".
FetchFeed ==
    /\ pc = "fetch"
    /\ LET r == Collect(fi, 1, items) IN
        /\ items' = r.kept
        /\ warned' = IF r.raised THEN warned \cup {fi} ELSE warned
    /\ fi' = fi + 1
    /\ pc' = IF fi = NumFeeds THEN "dedup" ELSE "fetch"
    /\ UNCHANGED <<configVars, historyVars, run, seen, uniq, htmlFile,
                   emailLog, tgResponse, tgLog>>

DedupLoop ==
    /\ pc = "dedup"
    /\ LET d == Dedup(items, 1, {}, <<>>) IN
        /\ seen' = d.seen
        /\ uniq' = d.uniq
    /\ pc' = "truncate"
    /\ UNCHANGED <<configVars, historyVars, run, fi, items, warned, htmlFile,
                   emailLog, tgResponse, tgLog>>

\* uniq = uniq[:MAX_ITEMS]
Truncate ==
    /\ pc = "truncate"
    /\ uniq' = SliceTo(uniq, MAX_ITEMS)
    /\ pc' = "write"
    /\ UNCHANGED <<configVars, historyVars, run, fi, items, warned, seen,
                   htmlFile, emailLog, tgResponse, tgLog>>

\* html = build_html(...); open(out_path, "w").write(html)
WriteNewsletter ==
    /\ pc = "write"
    /\ htmlFile' = build_html(uniq, LOOKBACK)
    /\ pc' = "email"
    /\ UNCHANGED <<configVars, historyVars, run, fi, items, warned, seen,
                   uniq, emailLog, tgResponse, tgLog>>

\* The delivery settings are read from the environment at the start and
\* first used here; emailReady is the value of
\* EMAIL_ENABLED and SMTP_HOST and SMTP_USER and SMTP_PASS and EMAIL_TO.
EmailDelivery ==
    /\ pc = "email"
    /\ \E emailReady \in BOOLEAN :
       IF emailReady
       THEN \E outcome \in SmtpOutcomes :
                /\ emailLog' = EmailReport(outcome)
                /\ pc' = AfterEmail(outcome)
       ELSE /\ emailLog' = "skipped"
            /\ pc' = "telegram"
    /\ UNCHANGED <<configVars, historyVars, run, fi, items, warned, seen,
                   uniq, htmlFile, tgResponse, tgLog>>

\* tgReady is the value of TELEGRAM_ENABLED and TG_TOKEN and TG_CHAT.
TelegramDelivery ==
    /\ pc = "telegram"
    /\ \E tgReady \in BOOLEAN :
       IF tgReady
       THEN \E response \in TelegramResponses :
                /\ tgResponse' = response
                /\ tgLog' = TelegramReport(response)
       ELSE /\ tgResponse' = "none"
            /\ tgLog' = "skipped"
    /\ pc' = "done"
    /\ UNCHANGED <<configVars, historyVars, run, fi, items, warned, seen,
                   uniq, htmlFile, emailLog>>

\* The script is started again: same feeds content, same configuration, the
\* files on disk as the first run left them.
SecondRun ==
    /\ pc = "done"
    /\ run = "first"
    /\ run' = "second"
    /\ pc' = "start"
    /\ fi' = 1
    /\ items' = <<>>
    /\ warned' = {}
    /\ seen' = {}
    /\ uniq' = <<>>
    /\ emailLog' = "none"
    /\ tgResponse' = "none"
    /\ tgLog' = "none"
    /\ UNCHANGED <<configVars, historyVars, htmlFile>>

\* One run of the script.
Next ==
    \/ LoadConfig
    \/ FetchFeed
    \/ DedupLoop
    \/ Truncate
    \/ WriteNewsletter
    \/ EmailDelivery
    \/ TelegramDelivery

Spec == Init /\ [][Next]_vars

\* Two consecutive runs of the script.
NextRuns ==
    \/ LoadConfig
    \/ FetchFeed
    \/ DedupLoop
    \/ Truncate
    \/ WriteNewsletter
    \/ EmailDelivery
    \/ TelegramDelivery
    \/ SecondRun

SpecRuns == Init /\ [][NextRuns]_vars

\* -------------------------------------------- the history helpers on their own
HistoryIds == {"a", "b", "c"}
\* The links in the order they were added to the set.
Insertions == {s \in UNION {[1..k -> HistoryIds] : k \in 0..MaxHist} :
                 Cardinality(Range(s)) = Len(s)}

InitHistory ==
    /\ feeds = <<[raises |-> FALSE, entries |-> <<>>], [raises |-> FALSE, entries |-> <<>>]>>
    /\ LOOKBACK = 1
    /\ MAX_ITEMS = 0
    /\ pc = "history"
    /\ run = "first"
    /\ fi = 1
    /\ items = <<>>
    /\ warned = {}
    /\ seen = {}
    /\ uniq = <<>>
    /\ htmlFile = NoFile
    /\ emailLog = "none"
    /\ tgResponse = "none"
    /\ tgLog = "none"
    /\ historyFile \in {NoHistory, CorruptHistory}
    /\ seen_links \in Insertions
    /\ limit \in 0..MaxLimit
    /\ loaded = {}

SaveHistory ==
    /\ pc = "history"
    /\ \E order \in Orders(Range(seen_links)) :
           historyFile' = [exists |-> TRUE, valid |-> TRUE,
                           data |-> save_history(order, limit)]
    /\ UNCHANGED <<configVars, pc, run, fi, items, warned, seen, uniq, htmlFile,
                   emailLog, tgResponse, tgLog, seen_links, limit, loaded>>

LoadHistory ==
    /\ pc = "history"
    /\ loaded' = load_history(historyFile)
    /\ UNCHANGED <<configVars, pc, run, fi, items, warned, seen, uniq, htmlFile,
                   emailLog, tgResponse, tgLog, historyFile, seen_links, limit>>

NextHistory ==
    \/ SaveHistory
    \/ LoadHistory

SpecHistory == InitHistory /\ [][NextHistory]_vars

\* ================================================================== claims
Final == {"write", "email", "telegram", "done"}
Delivered == {"email", "telegram", "done"}
LinksOf(s) == {Link(s[k]) : k \in 1..Len(s)}
\* r was fetched before q: an earlier configured feed, or earlier in the same feed.
Before(r, q) == r[1] < q[1] \/ (r[1] = q[1] /\ r[2] < q[2])
FetchOrdered(s) == \A i, j \in 1..Len(s) : i < j => Before(s[i], s[j])
\* The collected entries that carry a link no earlier collected entry carries.
FirstOccurrences ==
    {items[k] : k \in {n \in 1..Len(items) :
                         /\ Link(items[n]) # NoLink
                         /\ \A j \in 1..(n - 1) : Link(items[j]) # Link(items[n])}}
\* The last n elements of s.
LastN(s, n) == SubSeq(s, Len(s) - Min(n, Len(s)) + 1, Len(s))

\* C1: of two consecutive runs over the same feed contents, the second
\* starting from the files the first left, no link is in both final lists.
\* When the second run has its final list, newsletter.html still holds the
\* first run's.
C1_NoRepeatAcrossRuns ==
    (run = "second" /\ pc = "write")
        => LinksOf(uniq) \cap Range(htmlFile.hrefs) = {}

\* C2 as stated: for every configured integer MAX_ITEMS the final list, and
\* the list rendered into newsletter.html, has at most MAX_ITEMS items.
C2_BoundAnyInteger ==
    /\ pc \in Final => Len(uniq) <= MAX_ITEMS
    /\ pc \in Delivered => htmlFile.count <= MAX_ITEMS

\* C2 amended: for every configured MAX_ITEMS >= 0 the final list, and the
\* list rendered into newsletter.html, has at most MAX_ITEMS items.
C2_BoundNonNegative ==
    MAX_ITEMS >= 0 =>
        /\ pc \in Final => Len(uniq) <= MAX_ITEMS
        /\ pc \in Delivered => htmlFile.count <= MAX_ITEMS

C2_Witness ==
    /\ pc = "done"
    /\ MAX_ITEMS >= 0
    /\ Cardinality(FirstOccurrences) > MAX_ITEMS
    /\ Len(uniq) = MAX_ITEMS
    /\ htmlFile.count = MAX_ITEMS

\* C3: a feed whose processing failed (a warning was logged for it)
\* contributes no item to the final list, and every configured feed has been
\* processed when the fetch loop is over.
C3_FailedSourceContributesNothing ==
    pc \in Final =>
        /\ fi = NumFeeds + 1
        /\ \A f \in warned : \A k \in 1..Len(uniq) : uniq[k][1] # f

\* C4: after save_history the file holds at most limit identifiers, and when
\* more than limit were given it holds exactly the limit most recently added.
C4_HistoryBound ==
    (pc = "history" /\ historyFile.exists /\ historyFile.valid) =>
        /\ Len(historyFile.data) <= limit
        /\ Len(seen_links) > limit =>
               Range(historyFile.data) = Range(LastN(seen_links, limit))

\* C5: a collected entry without a link survives the dedup loop, never gets
\* into seen or into the history file, and is in the final list when it is
\* the only collected entry and MAX_ITEMS >= 1.
C5_LinklessKept ==
    /\ pc = "truncate" =>
           \A k \in 1..Len(items) :
               Link(items[k]) = NoLink => items[k] \in Range(uniq)
    /\ NoLink \notin seen
    /\ NoLink \notin Range(historyFile.data)
    /\ (pc \in Final /\ Len(items) = 1 /\ Link(items[1]) = NoLink /\ MAX_ITEMS >= 1)
           => uniq = items

\* C6: when chat delivery is configured and the bot API answers HTTP 200 with
\* "ok": false, the run logs a Telegram error, never "[OK] Telegram envoye.".
C6_NotOkIsReportedAsError ==
    (pc = "done" /\ tgResponse = "ok_false") => tgLog = "ERR"

\* C7: no delivery is attempted before newsletter.html is written; from then
\* on the file holds the rendering of the final list whatever the deliveries
\* did; whatever the email block did (skipped, sent, failed) the run is at the
\* Telegram block or past it, and whatever the Telegram block did the run is
\* complete; the Telegram block is skipped only when the API was not called.
C7_ArchiveIndependentOfDelivery ==
    /\ pc \notin Delivered => (emailLog = "none" /\ tgLog = "none" /\ tgResponse = "none")
    /\ pc \in Delivered => htmlFile = build_html(uniq, LOOKBACK)
    /\ pc \in {"telegram", "done"} => emailLog \in {"skipped", "OK", "ERR"}
    /\ pc = "done" => tgLog \in {"skipped", "OK", "ERR"}
    /\ pc = "done" => (tgLog = "skipped" <=> tgResponse = "none")
    /\ emailLog # "none" => pc \in {"telegram", "done"}
    /\ tgLog # "none" => pc = "done"

C7_Witness ==
    /\ pc = "done"
    /\ emailLog = "ERR"
    /\ tgResponse = "ok_true"
    /\ tgLog = "OK"
    /\ Len(uniq) >= 1
    /\ htmlFile = build_html(uniq, LOOKBACK)

\* C8: no two items of the final list carry the same link, and no two item
\* blocks of newsletter.html the same href.
C8_UniqueLinks ==
    /\ pc \in ({"truncate"} \cup Final) =>
           \A i, j \in 1..Len(uniq) : i # j => Link(uniq[i]) # Link(uniq[j])
    /\ pc \in Delivered =>
           \A i, j \in 1..Len(htmlFile.hrefs) :
               i # j => htmlFile.hrefs[i] # htmlFile.hrefs[j]

C8_Witness ==
    /\ pc = "done"
    /\ Len(items) = 2
    /\ items[1][1] # items[2][1]
    /\ Link(items[1]) = Link(items[2])
    /\ MAX_ITEMS >= 1
    /\ Len(uniq) = 1

\* The final list is the first n first-occurrences, in fetch order.
IsFirstInFetchOrder(n) ==
    /\ FetchOrdered(uniq)
    /\ Range(uniq) \subseteq FirstOccurrences
    /\ Len(uniq) = Min(n, Cardinality(FirstOccurrences))
    /\ \A r \in FirstOccurrences \ Range(uniq) : \A q \in Range(uniq) : Before(q, r)

\* C9 as stated: the final list is exactly the first MAX_ITEMS items of the
\* deduplicated list, in fetch order (none when MAX_ITEMS is below 1).
C9_FirstMaxItems ==
    pc \in Final => IsFirstInFetchOrder(Max(MAX_ITEMS, 0))

\* C9 amended: when MAX_ITEMS >= 0 the final list is exactly the first
\* MAX_ITEMS items of the deduplicated list, in fetch order; when MAX_ITEMS
\* is negative it is the deduplicated list without its last -MAX_ITEMS items.
C9_FirstMaxItemsNonNegative ==
    pc \in Final =>
        IF MAX_ITEMS >= 0
        THEN IsFirstInFetchOrder(MAX_ITEMS)
        ELSE IsFirstInFetchOrder(Max(Cardinality(FirstOccurrences) + MAX_ITEMS, 0))

C9_Witness ==
    /\ pc = "done"
    /\ MAX_ITEMS = 1
    /\ Len(items) = 2
    /\ items[1][1] = 1
    /\ items[2][1] = 2
    /\ Link(items[1]) \in Links
    /\ Link(items[2]) \in Links
    /\ Link(items[1]) # Link(items[2])
    /\ uniq = <<items[1]>>

\* The entries the fetch loop has applied the recency filter to: those of
\* the feeds already processed, up to the first one that made it raise.
Filtered ==
    {r \in (1..(fi - 1)) \X (1..MaxEntries + 1) :
        /\ ~feeds[r[1]].raises
        /\ r[2] <= Len(feeds[r[1]].entries)
        /\ \A j \in 1..r[2] : feeds[r[1]].entries[j].pub # BadPub}

\* C10: an entry the filter was applied to is collected exactly when it has
\* no published timestamp or is at most LOOKBACK hours old.
C10_RecencyFilter ==
    pc \notin {"start", "aborted", "history"} =>
        \A r \in Filtered :
            r \in Range(items) <=>
                \/ Entry(r).pub = NoPub
                \/ Entry(r).pub \in PubTimes /\ Now - Entry(r).pub.t <= LOOKBACK

C10_Witness ==
    /\ pc = "done"
    /\ \E r \in Filtered :
           /\ Entry(r).pub \in PubTimes
           /\ Now - Entry(r).pub.t = LOOKBACK + 1
           /\ r \notin Range(items)
    /\ \E r \in Filtered :
           /\ Entry(r).pub \in PubTimes
           /\ Now - Entry(r).pub.t = LOOKBACK - 1
           /\ r \in Range(items)
====
